---- MODULE Spec2Model ----
(***************************************************************************)
(* Model of backend/deepsearch_api.py (cgatting/RefScore): the websocket   *)
(* session registry (ConnectionManager), the fire-and-forget progress      *)
(* reporter (BroadcastingView), the process-wide NLP engine cache          *)
(* (nlp_processor, lifespan, get_refiner), the /refine job (refine) and    *)
(* the per-session keepalive loop (websocket_endpoint).                    *)
(*                                                                         *)
(* The program runs on one asyncio event loop: code between two awaits is  *)
(* atomic, so every action below is one run of a coroutine from one        *)
(* suspension point to the next.                                           *)
(***************************************************************************)
EXTENDS Integers, Sequences, FiniteSets, TLC

VARIABLES
    active_connections, \* ConnectionManager.active_connections: list of sessions
    link,               \* transport of each session: "up" or "down"
    ws,                 \* position of each session's websocket_endpoint coroutine
    removals,           \* how often manager.disconnect removed each session
    tasks,              \* the pending manager.broadcast coroutines, oldest first
    finished,           \* the manager.broadcast coroutines that have returned
    started,            \* lifespan startup has run
    nlp_processor,      \* the module global: None, or the engine retained
    built,              \* number of NLPProcessor instances constructed so far
    DEFAULT_SETTINGS,   \* the module-level default configuration object
    jobs,               \* the /refine requests
    preload,            \* environment variable REFSCORE_PRELOAD_NLP
    api,                \* outcome of the last direct call on the registry
    timer,              \* time each session's pending receive_text has waited
    outbox,             \* per session, the send_text calls not yet returned
    received            \* per session, the messages its client was sent

vars == <<active_connections, link, ws, removals, tasks, finished, started,
          nlp_processor, built, DEFAULT_SETTINGS, jobs, preload, api, timer,
          outbox, received>>

----------------------------------------------------------------------------
(* Bounds of the model *)

NumSessions == 2
MaxTasks == 2
MaxJobs == 2
MaxConns == 4
NumListeners == 1

\* The timeout of asyncio.wait_for around receive_text.
IdleTimeout == 30

Sessions == 1..NumSessions
Listeners == 1..NumListeners
JobIds == 1..MaxJobs

None == 0

----------------------------------------------------------------------------
(* Sequence helpers *)

Range(s) == {s[i] : i \in 1..Len(s)}

RECURSIVE RemoveFirst(_, _)
RemoveFirst(s, x) ==
    IF s = <<>> THEN <<>>
    ELSE IF Head(s) = x THEN Tail(s)
    ELSE <<Head(s)>> \o RemoveFirst(Tail(s), x)

----------------------------------------------------------------------------
(* ConnectionManager *)

\* connect, after the awaited accept: active_connections.append(websocket)
connect(conns, w) == Append(conns, w)

\* disconnect: list.remove(websocket); list.remove raises ValueError when the
\* element is absent.
disconnect(conns, w) ==
    IF w \in Range(conns)
    THEN [raised |-> FALSE, conns |-> RemoveFirst(conns, w)]
    ELSE [raised |-> TRUE, conns |-> conns]

\* One manager.broadcast(message) coroutine, as created (not yet run).
\*   i         the list iterator's index: how many items the for loop has taken
\*   cur       the connection whose send_text the coroutine is suspended in
\*   snapshot  the session list when the for loop began (history, for the claims)
\*   attempted, delivered, failed   sessions send_text was called on / returned
\*             for / raised for (history)
\*   raised    an exception left broadcast
NewTask(msg, job) ==
    [msg |-> msg, job |-> job, pc |-> "created", i |-> 0, cur |-> None,
     snapshot |-> <<>>, attempted |-> {}, delivered |-> {}, failed |-> {},
     raised |-> FALSE]

\* `for connection in self.active_connections`: the iterator reads the live
\* list at its index; then `await connection.send_text(message)` suspends.
broadcast_next(t, conns) ==
    IF t.i < Len(conns)
    THEN [t EXCEPT !.pc = "sending", !.cur = conns[t.i + 1], !.i = t.i + 1,
                   !.attempted = @ \cup {conns[t.i + 1]}]
    ELSE [t EXCEPT !.pc = "done", !.cur = None]

\* send_text returned (ok) or raised; `except Exception: pass` swallows it.
broadcast_sent(t, ok) ==
    IF ok THEN [t EXCEPT !.delivered = @ \cup {t.cur}]
    ELSE [t EXCEPT !.failed = @ \cup {t.cur}]

\* asyncio.create_task(manager.broadcast(...)): the coroutine is queued, the
\* caller goes on at once.
\* The reporter awaiting the broadcast instead of scheduling it: the
\* coroutine runs to its first send inside the call.
create_task_awaited(ts, msg, job) ==
    Append(ts, broadcast_next(
                   [NewTask(msg, job) EXCEPT !.snapshot = active_connections],
                   active_connections))

create_task(ts, msg, job) == Append(ts, NewTask(msg, job))

\* What identifies a broadcast among the pending ones.
TaskKey(t) == <<t.job, t.msg>>

\* The sends pending on each socket once coroutine t has run to its next
\* suspension: a coroutine suspended in send_text has joined the queue of
\* the socket it is sending on.
send_called(ob, t) ==
    IF t.pc = "sending"
    THEN [ob EXCEPT ![t.cur] = Append(@, TaskKey(t))]
    ELSE ob

\* The send of coroutine t on socket t.cur has returned or raised.
send_returned(ob, t) == [ob EXCEPT ![t.cur] = RemoveFirst(@, TaskKey(t))]

\* A socket completes its sends in the order they were called while its
\* transport is up; once the transport is down each pending or new send
\* fails on its own, in any order.
send_may_return(ob, t, up) == ~up \/ Head(ob[t.cur]) = TaskKey(t)

----------------------------------------------------------------------------
(* Actions: the broadcast coroutines *)

\* A coroutine that has returned leaves the pending list.
RemoveAt(s, k) == SubSeq(s, 1, k - 1) \o SubSeq(s, k + 1, Len(s))

task_step(k, t) ==
    IF t.pc = "done"
    THEN /\ tasks' = RemoveAt(tasks, k)
         /\ finished' = finished \cup {t}
    ELSE /\ tasks' = [tasks EXCEPT ![k] = t]
         /\ UNCHANGED finished

\* The event loop runs ready tasks in creation order: a task first runs after
\* every task created before it has first run.
TaskStart(k) ==
    /\ k \in 1..Len(tasks)
    /\ tasks[k].pc = "created"
    /\ \A j \in 1..(k - 1) : tasks[j].pc # "created"
    /\ LET t == broadcast_next(
                    [tasks[k] EXCEPT !.snapshot = active_connections],
                    active_connections)
       IN /\ task_step(k, t)
          /\ outbox' = send_called(outbox, t)
    /\ UNCHANGED <<active_connections, link, ws, removals, started,
                   nlp_processor, built, DEFAULT_SETTINGS, jobs, preload,
                   api, timer, received>>

TaskSendDone(k) ==
    /\ k \in 1..Len(tasks)
    /\ tasks[k].pc = "sending"
    /\ send_may_return(outbox, tasks[k], link[tasks[k].cur] = "up")
    /\ LET ok == link[tasks[k].cur] = "up"
           t == broadcast_next(broadcast_sent(tasks[k], ok),
                               active_connections)
       IN /\ task_step(k, t)
          /\ outbox' = send_called(send_returned(outbox, tasks[k]), t)
          /\ received' = IF ok
                         THEN [received EXCEPT
                                 ![tasks[k].cur] = Append(@, tasks[k].msg)]
                         ELSE received
    /\ UNCHANGED <<active_connections, link, ws, removals, started,
                   nlp_processor, built, DEFAULT_SETTINGS, jobs, preload,
                   api, timer>>

----------------------------------------------------------------------------
(* Actions: websocket_endpoint, one coroutine per session *)

\* A client opens /ws: the handler starts and awaits websocket.accept().
WsOpen(s) ==
    /\ ws[s] = "new"
    /\ ws' = [ws EXCEPT ![s] = "accepting"]
    /\ UNCHANGED <<active_connections, link, removals, tasks, finished,
                   started, nlp_processor, built, DEFAULT_SETTINGS, jobs,
                   preload, api, timer,
                   outbox, received>>

\* accept() returned: the session is registered and the loop awaits
\* receive_text with its timeout. accept() raising ends the handler before
\* the session is registered.
WsAccepted(s) ==
    /\ ws[s] = "accepting"
    /\ IF link[s] = "up"
       THEN /\ active_connections' = connect(active_connections, s)
            /\ ws' = [ws EXCEPT ![s] = "receiving"]
       ELSE /\ ws' = [ws EXCEPT ![s] = "refused"]
            /\ UNCHANGED active_connections
    /\ UNCHANGED <<link, removals, tasks, finished, started, nlp_processor,
                   built, DEFAULT_SETTINGS, jobs, preload, api, timer,
                   outbox, received>>

Drop(s) ==
    /\ ws[s] \in {"accepting", "receiving", "pinging"}
    /\ link[s] = "up"
    /\ link' = [link EXCEPT ![s] = "down"]
    /\ UNCHANGED <<active_connections, ws, removals, tasks, finished,
                   started, nlp_processor, built, DEFAULT_SETTINGS, jobs,
                   preload, api, timer, outbox, received>>

\* receive_text returns a message: the loop goes round and calls wait_for
\* again, which starts a new timeout.
WsMessage(s) ==
    /\ ws[s] = "receiving"
    /\ link[s] = "up"
    /\ timer' = [timer EXCEPT ![s] = 0]
    /\ UNCHANGED <<active_connections, link, ws, removals, tasks, finished,
                   started, nlp_processor, built, DEFAULT_SETTINGS, jobs,
                   preload, api, outbox, received>>

\* wait_for with the timeout ignored until it is exceeded.
receive_wait_late(elapsed, d) ==
    [timed_out |-> elapsed + d > IdleTimeout, elapsed |-> elapsed + d]

\* asyncio.wait_for(websocket.receive_text(), timeout=30) after a further d
\* units without a message: TimeoutError once the wait has lasted the
\* timeout.
receive_wait(elapsed, d) ==
    [timed_out |-> elapsed + d >= IdleTimeout, elapsed |-> elapsed + d]

\* d more units pass with nothing arriving from session s; on TimeoutError
\* the handler calls send_text with the ping.
WsIdle(s, d) ==
    /\ ws[s] = "receiving"
    /\ d \in 1..(IdleTimeout - timer[s])
    /\ LET w == receive_wait(timer[s], d)
       IN /\ timer' = [timer EXCEPT ![s] = w.elapsed]
          /\ ws' = [ws EXCEPT ![s] = IF w.timed_out THEN "pinging" ELSE @]
    /\ UNCHANGED <<active_connections, link, removals, tasks, finished,
                   started, nlp_processor, built, DEFAULT_SETTINGS, jobs,
                   preload, api, outbox, received>>

\* The rest of the timeout passes with nothing arriving from session s.
WsTimeout(s) == WsIdle(s, IdleTimeout - timer[s])

ws_disconnect(s) ==
    LET r == disconnect(active_connections, s) IN
    /\ active_connections' = r.conns
    /\ removals' = [removals EXCEPT ![s] = @ + (IF r.raised THEN 0 ELSE 1)]
    /\ ws' = [ws EXCEPT ![s] = IF r.raised THEN "crashed" ELSE "closed"]
    /\ timer' = [timer EXCEPT ![s] = 0]

\* The ping's send_text returns, and the loop calls wait_for again, or it
\* raises exc.
WsPingDone(s, exc) ==
    /\ ws[s] = "pinging"
    /\ IF link[s] = "up"
       THEN /\ ws' = [ws EXCEPT ![s] = "receiving"]
            /\ timer' = [timer EXCEPT ![s] = 0]
            /\ UNCHANGED <<active_connections, removals>>
       ELSE IF exc = "WebSocketDisconnect"
       THEN ws_disconnect(s)
       ELSE /\ ws' = [ws EXCEPT ![s] = "crashed"]
            /\ timer' = [timer EXCEPT ![s] = 0]
            /\ UNCHANGED <<active_connections, removals>>
    /\ UNCHANGED <<link, tasks, finished, started, nlp_processor, built,
                   DEFAULT_SETTINGS, jobs, preload, api, outbox, received>>

WsDisconnected(s) ==
    /\ ws[s] = "receiving"
    /\ link[s] = "down"
    /\ ws_disconnect(s)
    /\ UNCHANGED <<link, tasks, finished, started, nlp_processor, built,
                   DEFAULT_SETTINGS, jobs, preload, api, outbox, received>>

----------------------------------------------------------------------------
(* Requests and settings *)

\* An optional request field is a sequence of length 0 (absent) or 1.
Absent == <<>>
Some(x) == <<x>>
IsSet(o) == Len(o) = 1
Val(o) == o[1]

\* manuscriptText: the empty string, whitespace only, and text with
\* whitespace around it.
Whitespace == {" ", "\t"}
Texts == {<<>>, <<" ">>, <<" ", "\t">>, <<" ", "a", " ">>}
MaxResultsInputs == {Absent, Some(-5), Some(0), Some(10)}
NoCacheInputs == {Absent, Some(TRUE), Some(FALSE)}

\* str.strip(): drop leading and trailing whitespace.
RECURSIVE LStrip(_)
LStrip(t) ==
    IF t # <<>> /\ Head(t) \in Whitespace THEN LStrip(Tail(t)) ELSE t

RECURSIVE RStrip(_)
RStrip(t) ==
    IF t # <<>> /\ t[Len(t)] \in Whitespace
    THEN RStrip(SubSeq(t, 1, Len(t) - 1)) ELSE t

strip(t) == RStrip(LStrip(t))

\* The blank test without the strip: `not req.manuscriptText`.
is_blank_unstripped(t) == t = <<>>

\* `not req.manuscriptText or not req.manuscriptText.strip()`
is_blank(t) == t = <<>> \/ strip(t) = <<>>

\* DEEPSEARCH.DEFAULT_SETTINGS, the two fields a request can override.
InitialSettings == [max_results |-> 5, cache_enabled |-> TRUE]

\* deepcopy(DEFAULT_SETTINGS) and the two guarded overrides.
\* The overrides with maxResults accepted from 0 upwards.
request_settings_nonneg(defaults, maxResults, noCache) ==
    [max_results |->
        IF IsSet(maxResults) /\ Val(maxResults) >= 0
        THEN Val(maxResults) ELSE defaults.max_results,
     cache_enabled |->
        IF IsSet(noCache) /\ Val(noCache)
        THEN FALSE ELSE defaults.cache_enabled]

request_settings(defaults, maxResults, noCache) ==
    [max_results |->
        IF IsSet(maxResults) /\ Val(maxResults) > 0
        THEN Val(maxResults) ELSE defaults.max_results,
     cache_enabled |->
        IF IsSet(noCache) /\ Val(noCache)
        THEN FALSE ELSE defaults.cache_enabled]

\* The settings without the copy: the overrides are written into the
\* defaults object itself.
refine_settings_aliased(defaults, maxResults, noCache) ==
    [settings |-> request_settings(defaults, maxResults, noCache),
     defaults |-> request_settings(defaults, maxResults, noCache)]

\* Lines 128-138 of refine: the settings the request goes on with, and the
\* defaults object afterwards. deepcopy gives the request an object of its
\* own, so the two assignments do not reach DEFAULT_SETTINGS.
refine_settings(defaults, maxResults, noCache) ==
    [settings |-> request_settings(defaults, maxResults, noCache),
     defaults |-> defaults]

----------------------------------------------------------------------------
(* The engine cache *)

\* The exception NLPProcessor(settings) raises when it cannot be built.
CtorError == "model load failed"

\* get_refiner without the assignment to the global: each request builds an
\* engine of its own.
get_refiner_unstored(settings, proc, n, ctorOk) ==
    IF proc = None /\ ctorOk
    THEN [raised |-> FALSE, status |-> 200, detail |-> <<>>,
          nlp |-> proc, built |-> n + 1,
          refiner |-> <<[settings |-> settings, nlp_processor |-> n + 1]>>]
    ELSE [raised |-> TRUE, status |-> 503,
          detail |-> <<"NLP processor unavailable: ", CtorError>>,
          nlp |-> proc, built |-> n, refiner |-> <<>>]

\* get_refiner that keeps the processor it could not finish building.
get_refiner_sticky(settings, proc, n, ctorOk) ==
    IF proc = None /\ ~ctorOk
    THEN [raised |-> TRUE, status |-> 503,
          detail |-> <<"NLP processor unavailable: ", CtorError>>,
          nlp |-> n + 1, built |-> n + 1, refiner |-> <<>>]
    ELSE [raised |-> FALSE, status |-> 200, detail |-> <<>>,
          nlp |-> IF proc = None THEN n + 1 ELSE proc,
          built |-> IF proc = None THEN n + 1 ELSE n,
          refiner |-> <<[settings |-> settings,
                         nlp_processor |-> IF proc = None THEN n + 1 ELSE proc]>>]

\* get_refiner without the `is None` test: every request builds an engine
\* and replaces the one retained.
get_refiner_rebuild(settings, proc, n, ctorOk) ==
    IF ctorOk
    THEN [raised |-> FALSE, status |-> 200, detail |-> <<>>,
          nlp |-> n + 1, built |-> n + 1,
          refiner |-> <<[settings |-> settings, nlp_processor |-> n + 1]>>]
    ELSE [raised |-> TRUE, status |-> 503,
          detail |-> <<"NLP processor unavailable: ", CtorError>>,
          nlp |-> proc, built |-> n, refiner |-> <<>>]

\* get_refiner(settings), given the global, the number of engines built so
\* far and whether NLPProcessor(settings) succeeds now. nlp is the global
\* afterwards; refiner is the DocumentRefiner returned.
get_refiner(settings, proc, n, ctorOk) ==
    IF proc = None
    THEN IF ctorOk
         THEN [raised |-> FALSE, status |-> 200, detail |-> <<>>,
               nlp |-> n + 1, built |-> n + 1,
               refiner |-> <<[settings |-> settings, nlp_processor |-> n + 1]>>]
         ELSE [raised |-> TRUE, status |-> 503,
               detail |-> <<"NLP processor unavailable: ", CtorError>>,
               nlp |-> proc, built |-> n, refiner |-> <<>>]
    ELSE [raised |-> FALSE, status |-> 200, detail |-> <<>>,
          nlp |-> proc, built |-> n,
          refiner |-> <<[settings |-> settings, nlp_processor |-> proc]>>]

\* lifespan that does not read the flag: it always preloads.
lifespan_always(flag, n, ctorOk) ==
    IF ctorOk THEN [nlp |-> n + 1, built |-> n + 1, yielded |-> TRUE]
    ELSE [nlp |-> None, built |-> n, yielded |-> TRUE]

\* lifespan startup, given REFSCORE_PRELOAD_NLP and whether
\* NLPProcessor(DEFAULT_SETTINGS) succeeds: the global afterwards.
\* yielded: the context manager reached its yield, so the server starts.
lifespan(flag, n, ctorOk) ==
    IF flag = "1"
    THEN IF ctorOk THEN [nlp |-> n + 1, built |-> n + 1, yielded |-> TRUE]
         ELSE [nlp |-> None, built |-> n, yielded |-> TRUE]
    ELSE [nlp |-> None, built |-> n, yielded |-> TRUE]

----------------------------------------------------------------------------
(* BroadcastingView: the wire messages (json.dumps of these objects) *)

progress_message(percent, status) ==
    [type |-> "progress", progress |-> percent, message |-> <<status>>]

error_message(msg) ==
    [type |-> "error", message |-> msg]

\* Percentages are in hundredths: 0.0, 0.98, 1.0.
StartEvent == progress_message(0, "Starting DeepSearch refinement...")
MilestoneEvent == progress_message(98, "Generating bibliography and BibTeX...")
CompleteEvent == progress_message(100, "DeepSearch complete")
ErrorEvent(e) == error_message(<<"Refinement failed: ", e>>)

----------------------------------------------------------------------------
(* refine: one /refine request *)

\* What the DocumentRefiner stages return when they succeed.
ProcessedText == "Refined document text"
BibliographyText == "Bibliography text"
BibtexText == "@article{...}"

EmptyResponse == [processedText |-> "", bibliographyText |-> "", bibtex |-> ""]
FullResponse ==
    [processedText |-> ProcessedText, bibliographyText |-> BibliographyText,
     bibtex |-> BibtexText]

\* The exception a failing stage raises: 1 refine_document,
\* 2 generate_bibliography_text, 3 generate_bibtex_content.
Stages == 1..3
StageError(stage) == <<"stage failed", stage>>
ExcKinds == {"Exception", "HTTPException"}

\* A request not yet received.
\*   touched   get_refiner was called (the global was read)
\*   settings  the request's settings copy, once built
\*   refiner   the DocumentRefiner handed to the job; it and the settings are
\*             released when refine leaves its try block
\*   events    the messages the job handed to the reporter, in order
\*   failure   the stage that raised and the kind of exception (history)
\*   response / error   what the caller got
\*   audience  the sessions registered when the request arrived (history)
IdleJob ==
    [pc |-> "idle", text |-> <<>>, touched |-> FALSE, settings |-> <<>>,
     refiner |-> <<>>, events |-> <<>>, failure |-> <<>>, response |-> <<>>,
     error |-> <<>>, audience |-> {}]

\* refine with update_progress(0.0) called before get_refiner.
refine_begin_early_start(job, text, maxResults, noCache, defaults, proc, n, ctorOk) ==
    IF is_blank(text)
    THEN [job |-> [job EXCEPT !.pc = "done", !.text = text,
                              !.response = <<EmptyResponse>>],
          emits |-> <<>>, nlp |-> proc, built |-> n, defaults |-> defaults]
    ELSE LET c == refine_settings(defaults, maxResults, noCache)
             settings == c.settings
             r == get_refiner(settings, proc, n, ctorOk)
         IN IF r.raised
            THEN [job |-> [job EXCEPT !.pc = "done", !.text = text,
                                      !.touched = TRUE,
                                      !.settings = <<settings>>,
                                      !.events = <<StartEvent>>,
                                      !.error = <<[status |-> r.status,
                                                   detail |-> r.detail]>>],
                  emits |-> <<StartEvent>>, nlp |-> r.nlp, built |-> r.built,
                  defaults |-> c.defaults]
            ELSE [job |-> [job EXCEPT !.pc = "awaiting", !.text = text,
                                      !.touched = TRUE,
                                      !.settings = <<settings>>,
                                      !.refiner = r.refiner,
                                      !.events = <<StartEvent>>],
                  emits |-> <<StartEvent>>, nlp |-> r.nlp, built |-> r.built,
                  defaults |-> c.defaults]

\* refine, from its entry to `await refiner.refine_document(...)`, or to its
\* return or raise when that comes first. emits are the messages handed to
\* the view, nlp and built the cache afterwards.
refine_begin(job, text, maxResults, noCache, defaults, proc, n, ctorOk) ==
    IF is_blank(text)
    THEN [job |-> [job EXCEPT !.pc = "done", !.text = text,
                              !.response = <<EmptyResponse>>],
          emits |-> <<>>, nlp |-> proc, built |-> n, defaults |-> defaults]
    ELSE LET c == refine_settings(defaults, maxResults, noCache)
             settings == c.settings
             r == get_refiner(settings, proc, n, ctorOk)
         IN IF r.raised
            THEN [job |-> [job EXCEPT !.pc = "done", !.text = text,
                                      !.touched = TRUE,
                                      !.settings = <<settings>>,
                                      !.error = <<[status |-> r.status,
                                                   detail |-> r.detail]>>],
                  emits |-> <<>>, nlp |-> r.nlp, built |-> r.built,
                  defaults |-> c.defaults]
            ELSE [job |-> [job EXCEPT !.pc = "awaiting", !.text = text,
                                      !.touched = TRUE,
                                      !.settings = <<settings>>,
                                      !.refiner = r.refiner,
                                      !.events = <<StartEvent>>],
                  emits |-> <<StartEvent>>, nlp |-> r.nlp, built |-> r.built,
                  defaults |-> c.defaults]

\* An HTTPException raised by a stage, with a status and detail of its own.
StageHttpError(e) == [status |-> 400, detail |-> e]

\* The except clauses with the show_error call left out.
on_stage_error_silent(e, exc) ==
    IF exc = "HTTPException"
    THEN [emits |-> <<>>, error |-> <<StageHttpError(e)>>]
    ELSE [emits |-> <<>>, error |-> <<[status |-> 500, detail |-> e]>>]

\* The 500 carrying the reporter's trouble instead of the stage's error.
on_stage_error_masked(e, exc) ==
    IF exc = "HTTPException"
    THEN [emits |-> <<>>, error |-> <<StageHttpError(e)>>]
    ELSE [emits |-> <<ErrorEvent(e)>>,
          error |-> <<[status |-> 500, detail |-> <<"reporter failed">>]>>]

\* The except clauses of refine, for exception e of kind exc raised by a
\* stage: `except HTTPException: raise` passes an HTTPException through as
\* it is; any other Exception is reported with show_error and becomes a 500.
on_stage_error(e, exc) ==
    IF exc = "HTTPException"
    THEN [emits |-> <<>>, error |-> <<StageHttpError(e)>>]
    ELSE [emits |-> <<ErrorEvent(e)>>,
          error |-> <<[status |-> 500, detail |-> e]>>]

\* The try block with the 1.0 update left out.
SuccessEmitsNoCompletion == <<MilestoneEvent>>

\* The try block with the 0.98 update left out.
SuccessEmitsNoMilestone == <<CompleteEvent>>

\* What the try block hands to the view after refine_document has returned,
\* when no stage raises.
SuccessEmits == <<MilestoneEvent, CompleteEvent>>

\* refine giving up when none of the sessions that were registered at its
\* start is registered any more.
refine_finish_needs_audience(job, failAt, exc) ==
    IF job.audience # {} /\ job.audience \cap Range(active_connections) = {}
    THEN [job |-> [job EXCEPT
                     !.pc = "done", !.settings = <<>>, !.refiner = <<>>,
                     !.error = <<[status |-> 499,
                                  detail |-> <<"client disconnected">>]>>],
          emits |-> <<>>]
    ELSE LET before == IF failAt = 1 THEN <<>> ELSE <<MilestoneEvent>>
             h == on_stage_error(StageError(failAt), exc)
             emits == IF failAt = 0 THEN SuccessEmits ELSE before \o h.emits
         IN [job |-> [job EXCEPT
                        !.pc = "done",
                        !.settings = <<>>,
                        !.refiner = <<>>,
                        !.events = @ \o emits,
                        !.failure = IF failAt = 0 THEN <<>>
                                    ELSE <<[stage |-> failAt, exc |-> exc]>>,
                        !.response = IF failAt = 0 THEN <<FullResponse>>
                                     ELSE <<>>,
                        !.error = IF failAt = 0 THEN <<>> ELSE h.error],
             emits |-> emits]

\* refine, from the return of refine_document to its own return or raise.
\* failAt is the stage that raises (0: none), exc the kind of exception.
refine_finish(job, failAt, exc) ==
    LET before == IF failAt = 1 THEN <<>> ELSE <<MilestoneEvent>>
        h == on_stage_error(StageError(failAt), exc)
        emits == IF failAt = 0 THEN SuccessEmits ELSE before \o h.emits
    IN [job |-> [job EXCEPT
                   !.pc = "done",
                   !.settings = <<>>,
                   !.refiner = <<>>,
                   !.events = @ \o emits,
                   !.failure = IF failAt = 0 THEN <<>>
                               ELSE <<[stage |-> failAt, exc |-> exc]>>,
                   !.response = IF failAt = 0 THEN <<FullResponse>> ELSE <<>>,
                   !.error = IF failAt = 0 THEN <<>> ELSE h.error],
        emits |-> emits]

\* view.update_progress / view.show_error for each message in turn.
RECURSIVE create_tasks(_, _, _)
create_tasks(ts, msgs, job) ==
    IF msgs = <<>> THEN ts
    ELSE create_tasks(create_task(ts, Head(msgs), job), Tail(msgs), job)

----------------------------------------------------------------------------
(* Actions: startup and requests *)

\* The lifespan context manager runs before any request is served.
Lifespan(ctorOk) ==
    /\ ~started
    /\ LET r == lifespan(preload, built, ctorOk) IN
         /\ nlp_processor' = r.nlp
         /\ built' = r.built
         /\ started' = r.yielded
    /\ UNCHANGED <<active_connections, link, ws, removals, tasks, finished,
                   DEFAULT_SETTINGS, jobs, preload, api, timer,
                   outbox, received>>

\* POST /refine arrives and runs to its first suspension.
SubmitBody(j, text, maxResults, noCache, ctorOk) ==
    /\ started
    /\ jobs[j].pc = "idle"
    /\ LET r == refine_begin(jobs[j], text, maxResults, noCache,
                             DEFAULT_SETTINGS, nlp_processor, built, ctorOk)
       IN /\ jobs' = [jobs EXCEPT ![j] =
                          [r.job EXCEPT !.audience = Range(active_connections)]]
          /\ tasks' = create_tasks(tasks, r.emits, j)
          /\ nlp_processor' = r.nlp
          /\ built' = r.built
          /\ DEFAULT_SETTINGS' = r.defaults
    /\ UNCHANGED <<active_connections, link, ws, removals, finished, started,
                   preload, timer, outbox, received>>

Submit(j, text, maxResults, noCache, ctorOk) ==
    /\ SubmitBody(j, text, maxResults, noCache, ctorOk)
    /\ UNCHANGED api

\* The same, with the request written to the call log.
Request(j, text, maxResults, noCache, ctorOk) ==
    /\ SubmitBody(j, text, maxResults, noCache, ctorOk)
    /\ api' = [op |-> "refine", arg |-> j,
               before |-> [manuscriptText |-> text, maxResults |-> maxResults,
                           noCache |-> noCache],
               raised |-> jobs'[j].error # <<>>]

\* refine_document returns or raises, and refine runs to its end.
Resume(j, failAt, exc) ==
    /\ jobs[j].pc = "awaiting"
    /\ LET r == refine_finish(jobs[j], failAt, exc)
       IN /\ jobs' = [jobs EXCEPT ![j] = r.job]
          /\ tasks' = create_tasks(tasks, r.emits, j)
    /\ UNCHANGED <<active_connections, link, ws, removals, finished, started,
                   nlp_processor, built, DEFAULT_SETTINGS, preload, api, timer,
                   outbox, received>>

\* Some caller hands a progress update to the reporter (a broadcast of its
\* own); successive updates carry successive percentages.
Publish ==
    /\ Len(tasks) + Cardinality(finished) < MaxTasks
    /\ tasks' = create_task(tasks,
                            progress_message(Len(tasks) + Cardinality(finished),
                                             "update"),
                            None)
    /\ UNCHANGED <<active_connections, link, ws, removals, finished, started,
                   nlp_processor, built, DEFAULT_SETTINGS, jobs, preload,
                   api, timer,
                   outbox, received>>

----------------------------------------------------------------------------
(* Actions: direct calls on a ConnectionManager *)

\* manager.connect(s), after its accept.
ApiConnect(s) ==
    /\ Len(active_connections) < MaxConns
    /\ active_connections' = connect(active_connections, s)
    /\ api' = [op |-> "connect", arg |-> s, before |-> active_connections,
               raised |-> FALSE]
    /\ UNCHANGED <<link, ws, removals, tasks, finished, started,
                   nlp_processor, built, DEFAULT_SETTINGS, jobs, preload,
                   timer, outbox, received>>

\* manager.disconnect(s), for any session s.
ApiDisconnect(s) ==
    /\ LET r == disconnect(active_connections, s) IN
         /\ active_connections' = r.conns
         /\ api' = [op |-> "disconnect", arg |-> s,
                    before |-> active_connections, raised |-> r.raised]
    /\ UNCHANGED <<link, ws, removals, tasks, finished, started,
                   nlp_processor, built, DEFAULT_SETTINGS, jobs, preload,
                   timer, outbox, received>>

----------------------------------------------------------------------------
(* Specifications *)

Init ==
    /\ active_connections = <<>>
    /\ link = [s \in Sessions |-> "up"]
    /\ ws = [s \in Sessions |-> "new"]
    /\ removals = [s \in Sessions |-> 0]
    /\ tasks = <<>>
    /\ finished = {}
    /\ started = FALSE
    /\ nlp_processor = None
    /\ built = 0
    /\ DEFAULT_SETTINGS = InitialSettings
    /\ jobs = [j \in JobIds |-> IdleJob]
    /\ preload \in {"0", "1"}
    /\ api = [op |-> "none", arg |-> None, before |-> <<>>, raised |-> FALSE]
    /\ timer = [s \in Sessions |-> 0]
    /\ outbox = [s \in Sessions |-> <<>>]
    /\ received = [s \in Sessions |-> <<>>]

\* The whole server: sessions, requests and the broadcasts they schedule.
Next ==
    \/ \E ok \in BOOLEAN : Lifespan(ok)
    \/ \E s \in Sessions : WsOpen(s)
    \/ \E s \in Sessions : WsAccepted(s)
    \/ \E s \in Sessions : Drop(s)
    \/ \E s \in Sessions : WsMessage(s)
    \/ \E s \in Sessions : WsTimeout(s)
    \/ \E s \in Sessions, exc \in {"WebSocketDisconnect", "Other"} :
          WsPingDone(s, exc)
    \/ \E s \in Sessions : WsDisconnected(s)
    \/ \E j \in JobIds, text \in Texts, mr \in MaxResultsInputs,
          nc \in NoCacheInputs, ok \in BOOLEAN : Submit(j, text, mr, nc, ok)
    \/ \E j \in JobIds, failAt \in {0} \cup Stages, exc \in ExcKinds :
          Resume(j, failAt, exc)
    \/ \E k \in 1..Len(tasks) : TaskStart(k)
    \/ \E k \in 1..Len(tasks) : TaskSendDone(k)

Spec == Init /\ [][Next]_vars

\* The session registry under concurrent sessions and broadcasts.
NextRegistry ==
    \/ \E s \in Sessions : WsOpen(s)
    \/ \E s \in Sessions : WsAccepted(s)
    \/ \E s \in Sessions : Drop(s)
    \/ \E s \in Sessions : WsMessage(s)
    \/ \E s \in Sessions : WsTimeout(s)
    \/ \E s \in Sessions, exc \in {"WebSocketDisconnect", "Other"} :
          WsPingDone(s, exc)
    \/ \E s \in Sessions : WsDisconnected(s)
    \/ Publish
    \/ \E k \in 1..MaxTasks : TaskStart(k)
    \/ \E k \in 1..MaxTasks : TaskSendDone(k)

SpecRegistry == Init /\ [][NextRegistry]_vars

\* The keepalive loops of sessions whose clients stay connected, unit of
\* time by unit of time.
NextKeepalive ==
    \/ \E s \in Sessions : WsOpen(s)
    \/ \E s \in Sessions : WsAccepted(s)
    \/ \E s \in Sessions : WsMessage(s)
    \/ \E s \in Sessions : WsIdle(s, 1)
    \/ \E s \in Sessions, exc \in {"WebSocketDisconnect", "Other"} :
          WsPingDone(s, exc)

SpecKeepalive == Init /\ [][NextKeepalive]_vars

\* Startup and the /refine requests, with the broadcasts they schedule, on a
\* server no websocket client has connected to: every broadcast finds the
\* registry empty and returns when it first runs.
NextJobs ==
    \/ \E ok \in BOOLEAN : Lifespan(ok)
    \/ \E j \in JobIds, text \in Texts, mr \in MaxResultsInputs,
          nc \in NoCacheInputs, ok \in BOOLEAN : Submit(j, text, mr, nc, ok)
    \/ \E j \in JobIds, failAt \in {0} \cup Stages, exc \in ExcKinds :
          Resume(j, failAt, exc)
    \/ \E k \in 1..Len(tasks) : TaskStart(k)

SpecJobs == Init /\ [][NextJobs]_vars

\* A manuscript that is not blank.
StreamText == <<" ", "a", " ">>

\* One /refine request and the websocket sessions its events are broadcast
\* to: sessions come and go while the request runs and while its broadcasts
\* are under way.
NextStream ==
    \/ \E ok \in BOOLEAN : Lifespan(ok)
    \/ \E s \in Sessions : WsOpen(s)
    \/ \E s \in Sessions : WsAccepted(s)
    \/ \E s \in Sessions : Drop(s)
    \/ \E s \in Sessions : WsDisconnected(s)
    \/ \E ok \in BOOLEAN : Submit(1, StreamText, Absent, Absent, ok)
    \/ \E failAt \in {0} \cup Stages, exc \in ExcKinds : Resume(1, failAt, exc)
    \/ \E k \in 1..Len(tasks) : TaskStart(k)
    \/ \E k \in 1..Len(tasks) : TaskSendDone(k)

SpecStream == Init /\ [][NextStream]_vars

\* The same with the websocket clients limited to the listeners.
NextListeners ==
    \/ \E ok \in BOOLEAN : Lifespan(ok)
    \/ \E s \in Listeners : WsOpen(s)
    \/ \E s \in Listeners : WsAccepted(s)
    \/ \E s \in Listeners : Drop(s)
    \/ \E s \in Listeners : WsDisconnected(s)
    \/ \E ok \in BOOLEAN : Submit(1, StreamText, Absent, Absent, ok)
    \/ \E failAt \in {0} \cup Stages, exc \in ExcKinds : Resume(1, failAt, exc)
    \/ \E k \in 1..Len(tasks) : TaskStart(k)
    \/ \E k \in 1..Len(tasks) : TaskSendDone(k)

SpecListeners == Init /\ [][NextListeners]_vars

\* Startup and the arrival of /refine requests, each written to the call log.
NextRequests ==
    \/ \E ok \in BOOLEAN : Lifespan(ok)
    \/ \E j \in JobIds, text \in Texts, mr \in MaxResultsInputs,
          nc \in NoCacheInputs, ok \in BOOLEAN : Request(j, text, mr, nc, ok)

SpecRequests == Init /\ [][NextRequests]_vars

\* A ConnectionManager driven call by call.
NextApi ==
    \/ \E s \in Sessions : ApiConnect(s)
    \/ \E s \in Sessions : ApiDisconnect(s)

SpecApi == Init /\ [][NextApi]_vars

----------------------------------------------------------------------------
(* Properties *)

AllTasks == finished \cup Range(tasks)

\* C1: a broadcast that has returned did not raise, and called send_text for
\* every session that was registered when its loop began and is still
\* registered, whatever was unregistered while it was suspended in a send.
C1_BroadcastReachesEverySurvivor ==
    \A t \in finished :
        /\ ~t.raised
        /\ \A s \in Range(t.snapshot) \cap Range(active_connections) :
              s \in t.attempted

\* C2: a broadcast that has returned did not raise, attempted delivery to all
\* N sessions registered when it began, and delivered to each of them whose
\* send did not fail.
C2_BroadcastAttemptsAll ==
    \A t \in finished :
        /\ ~t.raised
        /\ Range(t.snapshot) \subseteq t.attempted
        /\ Range(t.snapshot) \ t.failed \subseteq t.delivered

\* C3: disconnect never raises, and for a session that is not registered it
\* leaves the registry as it was.
C3_DisconnectIdempotent ==
    api.op = "disconnect" =>
        /\ ~api.raised
        /\ api.arg \notin Range(api.before) => active_connections = api.before

\* Sessions a send has failed for: in a broadcast, or the keepalive ping
\* (a handler that is "crashed" left through a failed ping).
SendFailed ==
    UNION {t.failed : t \in AllTasks} \cup {s \in Sessions : ws[s] = "crashed"}

\* C4: a session is removed from the registry at most once; once a send to
\* it has failed, or its handler has seen the disconnect, it is no longer in
\* the active set and its keepalive loop has ended.
C4_RemovedOnDisconnectOrSendFailure ==
    \A s \in Sessions :
        /\ removals[s] <= 1
        /\ ws[s] = "closed" => s \notin Range(active_connections)
        /\ s \in SendFailed =>
              /\ s \notin Range(active_connections)
              /\ ws[s] \in {"closed", "crashed"}

\* C5: requests build at most one engine, and every job that holds a refiner
\* holds the engine the cache retains.
C5_OneEngineRetained ==
    /\ built <= 1
    /\ \A j \in JobIds :
          jobs[j].refiner # <<>> =>
              /\ nlp_processor # None
              /\ jobs[j].refiner[1].nlp_processor = nlp_processor

\* C5 witness: no preload, every request is in flight at once, and all hold
\* the one engine built by the first of them.
C5_Witness ==
    /\ preload = "0"
    /\ built = 1
    /\ \A j \in JobIds :
          /\ jobs[j].pc = "awaiting"
          /\ jobs[j].refiner[1].nlp_processor = nlp_processor

\* C6: a request that finds the cache empty either fails with 503 carrying
\* the construction error, leaving the cache empty and nothing built, or
\* gets the engine it built, which the cache then retains.
C6_ConstructionFailureNotRetained ==
    [][\A j \in JobIds :
          (jobs[j].pc = "idle" /\ jobs'[j].touched /\ nlp_processor = None) =>
              IF jobs'[j].error # <<>>
              THEN /\ jobs'[j].error[1].status = 503
                   /\ jobs'[j].error[1].detail[2] = CtorError
                   /\ jobs'[j].refiner = <<>>
                   /\ jobs'[j].events = <<>>
                   /\ nlp_processor' = None
                   /\ built' = built
              ELSE /\ nlp_processor' # None
                   /\ jobs'[j].refiner # <<>>
                   /\ jobs'[j].refiner[1].nlp_processor = nlp_processor']_vars

\* C6 witness: one request failed with 503 and a later one was handed the
\* engine the cache now retains.
C6_Witness ==
    \E j1, j2 \in JobIds :
        /\ jobs[j1].error # <<>>
        /\ jobs[j1].error[1].status = 503
        /\ jobs[j2].refiner # <<>>
        /\ nlp_processor # None
        /\ jobs[j2].refiner[1].nlp_processor = nlp_processor

\* C7: after startup a retained engine stays the retained engine, and a
\* request arriving then is handed it and builds nothing.
C7_EngineReused ==
    [][(started /\ nlp_processor # None) =>
          /\ nlp_processor' = nlp_processor
          /\ built' = built
          /\ \A j \in JobIds :
                (jobs[j].pc = "idle" /\ jobs'[j].touched) =>
                    /\ jobs'[j].error = <<>>
                    /\ jobs'[j].refiner[1].nlp_processor = nlp_processor]_vars

\* C7 witness: the engine was preloaded and every request in flight holds it.
C7_Witness ==
    /\ preload = "1"
    /\ started
    /\ nlp_processor # None
    /\ built = 1
    /\ \A j \in JobIds :
          /\ jobs[j].pc = "awaiting"
          /\ jobs[j].refiner[1].nlp_processor = nlp_processor

\* Empty or made of whitespace only.
AllWhitespace(t) == \A i \in 1..Len(t) : t[i] \in Whitespace

\* C8: a request whose text is empty or whitespace-only returns the all-empty
\* result at once: the cache is not read, no settings copy is built, nothing
\* is handed to the reporter, and registry, cache and defaults are unchanged.
C8_BlankShortCircuits ==
    [][\A j \in JobIds :
          (jobs[j].pc = "idle" /\ jobs'[j].pc # "idle"
              /\ AllWhitespace(jobs'[j].text)) =>
              /\ jobs'[j].pc = "done"
              /\ jobs'[j].response = <<EmptyResponse>>
              /\ jobs'[j].error = <<>>
              /\ ~jobs'[j].touched
              /\ jobs'[j].settings = <<>>
              /\ jobs'[j].refiner = <<>>
              /\ jobs'[j].events = <<>>
              /\ UNCHANGED <<active_connections, tasks, finished,
                             nlp_processor, built, DEFAULT_SETTINGS>>]_vars

\* C8 witness: a whitespace-only request has returned the empty result while
\* the cache is still empty.
C8_Witness ==
    \E j \in JobIds :
        /\ jobs[j].pc = "done"
        /\ jobs[j].text = <<" ", "\t">>
        /\ jobs[j].response = <<EmptyResponse>>
        /\ nlp_processor = None

IsErrorEvent(m) == m.type = "error"

\* The orders a job may emit in: start, milestone, completion, with an error
\* event in place of what had not been emitted yet.
InProgramOrder(evs) ==
    \/ \E n \in 0..3 : evs = SubSeq(<<StartEvent, MilestoneEvent, CompleteEvent>>, 1, n)
    \/ \E n \in 1..2 :
          /\ Len(evs) = n + 1
          /\ SubSeq(evs, 1, n) = SubSeq(<<StartEvent, MilestoneEvent>>, 1, n)
          /\ IsErrorEvent(evs[n + 1])

\* The messages of job j among the broadcasts, pending ones in queue order.
PendingOf(j) == SelectSeq(tasks, LAMBDA t : t.job = j)

\* C9: every job's events are in program order, each event is a broadcast
\* scheduled in that order, and a job that returned a result past the blank
\* test emitted exactly start, milestone, completion and returned the full
\* triple.
C9_EventsInProgramOrder ==
    \A j \in JobIds :
        /\ InProgramOrder(jobs[j].events)
        /\ \E n \in 0..Len(jobs[j].events) :
              /\ Len(PendingOf(j)) = Len(jobs[j].events) - n
              /\ \A i \in 1..Len(PendingOf(j)) :
                    PendingOf(j)[i].msg = jobs[j].events[n + i]
              /\ \A i \in 1..n :
                    \E t \in finished : t.job = j /\ t.msg = jobs[j].events[i]
        /\ (jobs[j].pc = "done" /\ jobs[j].touched /\ jobs[j].error = <<>>) =>
              /\ jobs[j].events = <<StartEvent, MilestoneEvent, CompleteEvent>>
              /\ jobs[j].response = <<FullResponse>>

\* C9 witness: one job succeeded and another failed after the milestone.
C9_Witness ==
    \E j1, j2 \in JobIds :
        /\ jobs[j1].pc = "done"
        /\ jobs[j1].response = <<FullResponse>>
        /\ Len(jobs[j1].events) = 3
        /\ jobs[j2].pc = "done"
        /\ Len(jobs[j2].events) = 3
        /\ IsErrorEvent(jobs[j2].events[3])

ErrorEventsOf(j) ==
    {i \in 1..Len(jobs[j].events) : IsErrorEvent(jobs[j].events[i])}

\* A job's outcome is the full triple or a failure, never part of a triple.
NoPartialResult(j) ==
    /\ jobs[j].response \in {<<>>, <<EmptyResponse>>, <<FullResponse>>}
    /\ ~(jobs[j].response # <<>> /\ jobs[j].error # <<>>)
    /\ jobs[j].pc = "done" => (jobs[j].response # <<>> \/ jobs[j].error # <<>>)
    /\ jobs[j].pc # "done" => (jobs[j].response = <<>> /\ jobs[j].error = <<>>)

----------------------------------------------------------------------------
(* Engine acquisition failing inside a request *)

\* A request that got past the blank check and ended with neither a stage
\* failure nor a response: get_refiner raised.
AcquisitionFailed(j) ==
    /\ jobs[j].pc = "done"
    /\ jobs[j].touched
    /\ jobs[j].failure = <<>>
    /\ jobs[j].response = <<>>

\* C11: a request whose engine acquisition failed got a 503 naming the
\* construction error, and nothing was handed to the reporter for it: it has
\* no event, and no broadcast of its own is pending or has run.
C11_AcquisitionFailureNotBroadcast ==
    \A j \in JobIds :
        AcquisitionFailed(j) =>
            /\ jobs[j].error =
                  <<[status |-> 503,
                     detail |-> <<"NLP processor unavailable: ", CtorError>>]>>
            /\ jobs[j].events = <<>>
            /\ \A t \in AllTasks : t.job # j

\* C11 witness: one request failed at acquisition while another request's
\* broadcasts are in the system.
C11_Witness ==
    \E j1, j2 \in JobIds :
        /\ AcquisitionFailed(j1)
        /\ jobs[j1].error # <<>>
        /\ jobs[j1].error[1].status = 503
        /\ \E t \in AllTasks : t.job = j2

----------------------------------------------------------------------------
(* The defaults and the per-request settings *)

\* C12: no step changes DEFAULT_SETTINGS, and the settings of a request in
\* flight are not changed by other requests being received.
C12_DefaultsNeverMutated ==
    [][/\ DEFAULT_SETTINGS' = DEFAULT_SETTINGS
       /\ \A j \in JobIds :
             (jobs[j].settings # <<>> /\ jobs'[j].pc = jobs[j].pc) =>
                 jobs'[j].settings = jobs[j].settings]_vars

\* C12 witness: two requests in flight, one running with overridden settings
\* and one with settings equal to the defaults.
C12_Witness ==
    \E j1, j2 \in JobIds :
        /\ jobs[j1].pc = "awaiting"
        /\ jobs[j2].pc = "awaiting"
        /\ jobs[j1].settings # <<>>
        /\ jobs[j2].settings # <<>>
        /\ jobs[j1].settings[1].max_results # DEFAULT_SETTINGS.max_results
        /\ jobs[j1].settings[1].cache_enabled # DEFAULT_SETTINGS.cache_enabled
        /\ jobs[j2].settings[1] = DEFAULT_SETTINGS

\* The request last received, as the call log has it.
LastRequest == api.before

\* C13: the settings of the request last received are the defaults, except
\* that max_results is the request's maxResults exactly when that is a
\* positive integer, and cache_enabled is false exactly when noCache is
\* true; an override that is absent or not valid changes nothing, and the
\* only error such a request can have at this point is the 503 of engine
\* acquisition.
C13_OverridesApplied ==
    (api.op = "refine" /\ jobs[api.arg].settings # <<>>) =>
        LET j == api.arg
            mr == LastRequest.maxResults
            nc == LastRequest.noCache
            got == jobs[j].settings[1]
        IN /\ IF mr # Absent /\ mr[1] > 0
              THEN got.max_results = mr[1]
              ELSE got.max_results = DEFAULT_SETTINGS.max_results
           /\ IF nc = Some(TRUE)
              THEN got.cache_enabled = FALSE
              ELSE got.cache_enabled = DEFAULT_SETTINGS.cache_enabled
           /\ jobs[j].error # <<>> => jobs[j].error[1].status = 503

\* C13 witness: a request with maxResults 0 and noCache true runs with the
\* default max_results and the cache off.
C13_Witness ==
    /\ api.op = "refine"
    /\ LastRequest.maxResults = Some(0)
    /\ LastRequest.noCache = Some(TRUE)
    /\ jobs[api.arg].pc = "awaiting"
    /\ jobs[api.arg].settings =
          <<[max_results |-> DEFAULT_SETTINGS.max_results,
             cache_enabled |-> FALSE]>>

----------------------------------------------------------------------------
(* Keepalive *)

\* Where a session's idle window stands: a handler waiting in receive_text
\* has waited less than the timeout, and a handler sending a ping has just
\* waited exactly the timeout.
WindowShape(s) ==
    /\ timer[s] \in 0..IdleTimeout
    /\ ws[s] = "receiving" => timer[s] < IdleTimeout
    /\ ws[s] = "pinging" <=> timer[s] = IdleTimeout

\* C15: a ping is sent to a session exactly when its wait reaches the
\* timeout, one ping for that window, and the next window starts from zero
\* when the ping has been sent; a message from the session starts a new
\* window without a ping being sent; time passing short of the timeout
\* sends nothing.
C15_OnePingPerIdleWindow ==
    [][\A s \in Sessions :
          /\ WindowShape(s)
          /\ WindowShape(s)'
          /\ (ws[s] # "pinging" /\ ws'[s] = "pinging") =>
                 (ws[s] = "receiving" /\ timer'[s] > timer[s])
          /\ (ws[s] = "pinging" /\ ws'[s] = "receiving") => timer'[s] = 0
          /\ (ws[s] = "pinging" /\ ws'[s] = "pinging") => timer'[s] = timer[s]
          /\ (ws[s] = "receiving" /\ timer'[s] < timer[s]) =>
                 (timer'[s] = 0 /\ ws'[s] # "pinging")
          /\ (ws[s] = "receiving" /\ timer'[s] > timer[s]) =>
                 (ws'[s] = "pinging" <=> timer'[s] = IdleTimeout)]_vars

\* C15 witness: two registered sessions, one being sent the ping of a window
\* that has just run out, the other part of the way through its window.
C15_Witness ==
    \E s1, s2 \in Sessions :
        /\ Range(active_connections) = {s1, s2}
        /\ ws[s1] = "pinging"
        /\ timer[s1] = IdleTimeout
        /\ link[s1] = "up"
        /\ ws[s2] = "receiving"
        /\ timer[s2] = IdleTimeout - 1
        /\ link[s2] = "up"

----------------------------------------------------------------------------
(* Startup preload *)

\* C17: startup always completes; it leaves an engine in the cache only
\* when the flag is "1" and the construction succeeded, and builds nothing
\* otherwise; a request that then finds the cache empty attempts the
\* construction itself.
C17_PreloadOptionalAndTolerant ==
    [][/\ ~started =>
             /\ started'
             /\ preload # "1" => (nlp_processor' = None /\ built' = built)
             /\ nlp_processor' = None => built' = built
             /\ nlp_processor' # None =>
                    (built' = built + 1 /\ nlp_processor' = built')
       /\ \A j \in JobIds :
             (started /\ nlp_processor = None
                /\ jobs[j].pc = "idle" /\ jobs'[j].touched) =>
                 \/ /\ built' = built + 1
                    /\ nlp_processor' = built'
                    /\ jobs'[j].error = <<>>
                 \/ /\ jobs'[j].error # <<>>
                    /\ jobs'[j].error[1].detail[2] = CtorError
                    /\ nlp_processor' = None]_vars

\* C17 witness: with the flag set the server is up with an empty cache, so
\* the preload failed; one request since failed to build the engine and
\* another built it.
C17_Witness ==
    /\ preload = "1"
    /\ started
    /\ built = 1
    /\ nlp_processor = 1
    /\ \E j1, j2 \in JobIds :
          /\ AcquisitionFailed(j1)
          /\ jobs[j2].refiner # <<>>
          /\ jobs[j2].refiner[1].nlp_processor = nlp_processor

----------------------------------------------------------------------------
(* Terminal events *)

IsTerminalEvent(m) == m = CompleteEvent \/ IsErrorEvent(m)

TerminalEventsOf(j) ==
    {i \in 1..Len(jobs[j].events) : IsTerminalEvent(jobs[j].events[i])}

\* A request that got its refiner.
PassedAcquisition(j) == jobs[j].touched /\ ~AcquisitionFailed(j)

\* The terminal event, the job's last event, agrees with what the caller got.
TerminalAgrees(j) ==
    LET evs == jobs[j].events
    IN /\ TerminalEventsOf(j) = {Len(evs)}
       /\ evs[Len(evs)] = CompleteEvent <=> jobs[j].response = <<FullResponse>>
       /\ IsErrorEvent(evs[Len(evs)]) <=> jobs[j].failure # <<>>
       /\ jobs[j].failure # <<>> =>
             jobs[j].error = <<[status |-> 500,
                                detail |-> StageError(jobs[j].failure[1].stage)]>>

----------------------------------------------------------------------------
(* The job and its broadcasts *)

\* The broadcasts of job j that have returned.
FinishedOf(j) == {t \in finished : t.job = j}

\* C14: a step of a request that hands events to the reporter only adds
\* their broadcasts, not yet run, to the pending ones: nothing is sent,
\* delivered or completed in that step. And a request fails only because
\* engine acquisition or a stage failed, whatever becomes of its broadcasts.
C14_ReportingIsFireAndForget ==
    [][\A j \in JobIds :
          /\ jobs'[j].events # jobs[j].events =>
                LET n == Len(jobs'[j].events) - Len(jobs[j].events)
                IN /\ n > 0
                   /\ Len(tasks') = Len(tasks) + n
                   /\ SubSeq(tasks', 1, Len(tasks)) = tasks
                   /\ \A k \in (Len(tasks) + 1)..Len(tasks') :
                         /\ tasks'[k].pc = "created"
                         /\ tasks'[k].job = j
                         /\ tasks'[k].attempted = {}
                   /\ finished' = finished
                   /\ outbox' = outbox
                   /\ received' = received
          /\ jobs'[j].error # <<>> =>
                \/ jobs'[j].failure # <<>>
                \/ /\ jobs'[j].events = <<>>
                   /\ jobs'[j].error[1].status = 503]_vars

\* C14 witness: a request returned the full response although every send of
\* each of its three broadcasts failed.
C14_Witness ==
    \E j \in JobIds :
        /\ jobs[j].response = <<FullResponse>>
        /\ Cardinality(FinishedOf(j)) = 3
        /\ \A t \in FinishedOf(j) : t.attempted # {} /\ t.delivered = {}

\* C16: a session's disconnect removes that session from the registry and
\* ends its handler, and changes no request, no broadcast and no other
\* session's handler; a request in flight ends only with the full response
\* or with the failure of one of its stages.
C16_DisconnectLeavesJobAlone ==
    [][/\ \A s \in Sessions :
             (ws[s] = "receiving" /\ ws'[s] # "receiving") =>
                 /\ ws'[s] = "closed"
                 /\ active_connections' = RemoveFirst(active_connections, s)
                 /\ \A s2 \in Sessions \ {s} : ws'[s2] = ws[s2]
                 /\ jobs' = jobs
                 /\ tasks' = tasks
                 /\ finished' = finished
       /\ \A j \in JobIds :
             (jobs[j].pc = "awaiting" /\ jobs'[j] # jobs[j]) =>
                 /\ jobs'[j].pc = "done"
                 /\ \/ jobs'[j].response = <<FullResponse>>
                    \/ jobs'[j].failure # <<>>]_vars

\* C16 witness: a session registered when the request arrived has since
\* disconnected, and the request, still in flight, can go on to return its
\* result.
C16_Witness ==
    \E j \in JobIds, s \in Sessions :
        /\ jobs[j].pc = "awaiting"
        /\ s \in jobs[j].audience
        /\ ws[s] = "closed"
        /\ s \notin Range(active_connections)
        /\ ENABLED Resume(j, 0, "Exception")

\* C18: a request whose stage raised an ordinary exception failed with a
\* 500 carrying that stage's error, and its error broadcast carries the
\* same error and does not raise, whether that broadcast is still pending,
\* reached its sessions or failed on them.
C18_ReporterFailureDoesNotMask ==
    \A j \in JobIds :
        (jobs[j].failure # <<>> /\ jobs[j].failure[1].exc = "Exception") =>
            LET e == StageError(jobs[j].failure[1].stage)
            IN /\ jobs[j].error = <<[status |-> 500, detail |-> e]>>
               /\ \A t \in AllTasks :
                     (t.job = j /\ IsErrorEvent(t.msg)) =>
                         (t.msg = ErrorEvent(e) /\ ~t.raised)

\* C18 witness: the error broadcast of a failed request has run and every
\* one of its sends failed; the caller got the 500 with the stage's error.
C18_Witness ==
    \E j \in JobIds, t \in finished :
        /\ t.job = j
        /\ IsErrorEvent(t.msg)
        /\ t.attempted # {}
        /\ t.attempted = t.failed
        /\ jobs[j].error =
              <<[status |-> 500,
                 detail |-> StageError(jobs[j].failure[1].stage)]>>

----------------------------------------------------------------------------
(* Order of delivery *)

\* Position of message m among the events of job j (0: not one of them).
EventIndex(j, m) ==
    IF \E i \in 1..Len(jobs[j].events) : jobs[j].events[i] = m
    THEN CHOOSE i \in 1..Len(jobs[j].events) : jobs[j].events[i] = m
    ELSE 0

\* Session s was registered when job j arrived, is still registered, and its
\* transport is up.
StaysRegisteredAndHealthy(s, j) ==
    /\ s \in jobs[j].audience
    /\ s \in Range(active_connections)
    /\ ws[s] = "receiving"
    /\ link[s] = "up"

\* C19 as stated: a session that stays registered and healthy through a job
\* has been sent that job's events in the order the job emitted them.
C19_DeliveredInEmissionOrder ==
    \A j \in JobIds, s \in Sessions :
        StaysRegisteredAndHealthy(s, j) =>
            \A p, q \in 1..Len(received[s]) :
                (p < q /\ EventIndex(j, received[s][p]) > 0
                       /\ EventIndex(j, received[s][q]) > 0) =>
                    EventIndex(j, received[s][p]) < EventIndex(j, received[s][q])

====
